---- MODULE Spec2Model ----
(***************************************************************************)
(* Model of Model/DataCollection.py: the per-video landmark pipeline       *)
(* process_video with its helpers smooth_landmarks,                        *)
(* interpolate_missing_frames and extract_dance_name.                      *)
(*                                                                         *)
(* Numbers: the program computes on float64; the model computes on exact   *)
(* rationals <<numerator, denominator>> in lowest terms, so means and      *)
(* midpoints are exact and rounding is not modelled.                       *)
(* Records: the 33 x 4 = 132 numeric fields of a record are a vector of    *)
(* NumFields rationals, field j of the vector standing for the field at    *)
(* flattened position idx * 4 + coord of the program.                      *)
(* Text: a string is a sequence of one-character strings.                  *)
(***************************************************************************)
EXTENDS Integers, Sequences, FiniteSets, TLC

(***************************************************************************)
(* Bounds of the model.                                                    *)
(***************************************************************************)
MaxReported == 4      \* largest frame count the container reports
MaxDecodable == 6     \* largest number of frames the decoder yields
MaxTarget == 6        \* largest frames_per_sample
NumFields == 2        \* numeric fields of a record (132 in the program)

\* smoothing windows: 0 (a deque that holds nothing), 1, 3 and the default 5
Windows == {0, 1, 3, 5}

\* sample_number = 1 of main: the number of the first video of a batch
FirstSample == 1

(***************************************************************************)
(* Exact rational arithmetic, standing for float64; denominators > 0.      *)
(***************************************************************************)
RECURSIVE GCD(_, _)
GCD(a, b) == IF b = 0 THEN a ELSE GCD(b, a % b)

Rat(n, d) == LET g == GCD(n, d) IN <<n \div g, d \div g>>

RAdd(p, q) == Rat(p[1] * q[2] + q[1] * p[2], p[2] * q[2])

RMul(p, q) == Rat(p[1] * q[1], p[2] * q[2])

\* 1 - r, for 0 <= r <= 1
ROneMinus(r) == Rat(r[2] - r[1], r[2])

Max(a, b) == IF a >= b THEN a ELSE b

Min(a, b) == IF a <= b THEN a ELSE b

(***************************************************************************)
(* Text.                                                                   *)
(***************************************************************************)
UpperChars == <<"A", "B", "C", "D", "E", "F", "G", "H", "I", "J", "K", "L", "M",
                "N", "O", "P", "Q", "R", "S", "T", "U", "V", "W", "X", "Y", "Z">>

LowerChars == <<"a", "b", "c", "d", "e", "f", "g", "h", "i", "j", "k", "l", "m",
                "n", "o", "p", "q", "r", "s", "t", "u", "v", "w", "x", "y", "z">>

\* str.lower() on one character
LowerChar(c) ==
    IF \E i \in 1..Len(UpperChars) : UpperChars[i] = c
    THEN LowerChars[CHOOSE i \in 1..Len(UpperChars) : UpperChars[i] = c]
    ELSE c

\* str.lower()
Lower(s) == [i \in 1..Len(s) |-> LowerChar(s[i])]

\* the Python test  sub in s
Contains(s, sub) ==
    \E k \in 0..(Len(s) - Len(sub)) :
        \A i \in 1..Len(sub) : s[k + i] = sub[i]

\* os.path.basename: what follows the last "/"
Basename(path) ==
    LET slashes == {i \in 1..Len(path) : path[i] = "/"}
        last == IF slashes = {} THEN 0
                ELSE CHOOSE i \in slashes : \A j \in slashes : j <= i
    IN SubSeq(path, last + 1, Len(path))

VALID_DANCE_NAMES ==
    << <<"d", "e", "f", "a", "u", "l", "t", "_", "d", "a", "n", "c", "e">>,
       <<"g", "r", "i", "d", "d", "y">>,
       <<"f", "l", "o", "s", "s">>,
       <<"s", "q", "u", "a", "b", "b", "l", "e">>,
       <<"b", "o", "o", "g", "i", "e", "_", "d", "o", "w", "n">>,
       <<"l", "a", "u", "g", "h">>,
       <<"b", "o", "o", "g", "i", "e", "_", "u", "p">> >>

Unknown == <<"u", "n", "k", "n", "o", "w", "n">>

\* variant: the last entry found wins
extract_dance_name_last(filename, valid_dances) ==
    LET filename_lower == Lower(filename)
        hits == {i \in 1..Len(valid_dances) :
                    Contains(filename_lower, Lower(valid_dances[i]))}
    IN IF hits = {} THEN Unknown
       ELSE Lower(valid_dances[CHOOSE i \in hits : \A j \in hits : j <= i])

\* the first entry of valid_dances, in list order, found in the lower-cased
\* filename; 'unknown' when there is none
extract_dance_name(filename, valid_dances) ==
    LET filename_lower == Lower(filename)
        hits == {i \in 1..Len(valid_dances) :
                    Contains(filename_lower, Lower(valid_dances[i]))}
    IN IF hits = {} THEN Unknown
       ELSE Lower(valid_dances[CHOOSE i \in hits : \A j \in hits : i <= j])

\* the video paths of the model:
\*   s/Griddy2  s/laugh_FLOSS  floss/clip  s/clip1
VideoPaths ==
    { <<"s", "/", "G", "r", "i", "d", "d", "y", "2">>,
      <<"s", "/", "l", "a", "u", "g", "h", "_", "F", "L", "O", "S", "S">>,
      <<"f", "l", "o", "s", "s", "/", "c", "l", "i", "p">>,
      <<"s", "/", "c", "l", "i", "p", "1">> }

(***************************************************************************)
(* Vectors and records.                                                    *)
(***************************************************************************)
\* smooth_landmarks returns None: modelled as the empty vector
None == << >>

\* the landmarks the detector reports on the frame at decode position p when
\* it finds any: every frame has its own vector, field j holding j * 2^p
PoseLandmarks(p) == [j \in 1..NumFields |-> Rat(j * (2 ^ p), 1)]

\* variant: a full deque gives up its newest entry
DequeAppend_newest(buffer, x, maxlen) ==
    IF maxlen = 0 THEN buffer
    ELSE IF Len(buffer) >= maxlen
         THEN Append(SubSeq(buffer, 1, Len(buffer) - 1), x)
    ELSE Append(buffer, x)

\* variant: the deque never gives up an entry
DequeAppend_unbounded(buffer, x, maxlen) ==
    IF maxlen = 0 THEN buffer ELSE Append(buffer, x)

\* deque(maxlen = w).append(x)
DequeAppend(buffer, x, maxlen) ==
    IF maxlen = 0 THEN buffer
    ELSE IF Len(buffer) >= maxlen THEN Append(Tail(buffer), x)
    ELSE Append(buffer, x)

\* the Python slice  a[-w:]  (a[-0:] is the whole of a)
LastRows(a, w) ==
    IF w = 0 \/ w >= Len(a) THEN a
    ELSE SubSeq(a, Len(a) - w + 1, Len(a))

RECURSIVE ColumnSum(_, _)
ColumnSum(rows, j) ==
    IF rows = << >> THEN Rat(0, 1)
    ELSE RAdd(rows[1][j], ColumnSum(Tail(rows), j))

\* np.mean(rows, axis=0)
MeanRows(rows) ==
    [j \in 1..NumFields |-> RMul(ColumnSum(rows, j), Rat(1, Len(rows)))]

\* variant: the sum is divided by the window size
smooth_landmarks_padded(buffer, window) ==
    IF Len(buffer) < 1 THEN None
    ELSE [j \in 1..NumFields |->
             RMul(ColumnSum(LastRows(buffer, window), j), Rat(1, window))]

smooth_landmarks(buffer, window) ==
    IF Len(buffer) < 1 THEN None
    ELSE MeanRows(LastRows(buffer, window))

\* variant: the ratio is i / num_missing
InterpolatedDict_ratio(prev_frame, next_frame, i, num_missing) ==
    LET ratio == Rat(i, num_missing)
    IN [sample_number |-> prev_frame.sample_number,
        frame_number  |-> prev_frame.frame_number + i,
        dance_name    |-> prev_frame.dance_name,
        values        |-> [j \in 1..NumFields |->
                              RAdd(RMul(ROneMinus(ratio), prev_frame.values[j]),
                                   RMul(ratio, next_frame.values[j]))]]

\* one interpolated record, step i of num_missing
InterpolatedDict(prev_frame, next_frame, i, num_missing) ==
    LET ratio == Rat(i, num_missing + 1)
    IN [sample_number |-> prev_frame.sample_number,
        frame_number  |-> prev_frame.frame_number + i,
        dance_name    |-> prev_frame.dance_name,
        values        |-> [j \in 1..NumFields |->
                              RAdd(RMul(ROneMinus(ratio), prev_frame.values[j]),
                                   RMul(ratio, next_frame.values[j]))]]

interpolate_missing_frames(prev_frame, next_frame, num_missing) ==
    [i \in 1..num_missing |->
        InterpolatedDict(prev_frame, next_frame, i, num_missing)]

\* the record appended after a successful detection
SmoothedDict(sample, frame_no, dance, smoothed) ==
    [sample_number |-> sample,
     frame_number  |-> frame_no,
     dance_name    |-> dance,
     values        |-> smoothed]

(***************************************************************************)
(* State of process_video.                                                 *)
(***************************************************************************)
VARIABLES
    video_path,          \* argument
    sample_number,       \* argument
    frames_per_sample,   \* argument
    smoothing_window,    \* argument
    total_frames,        \* what cap.get(CAP_PROP_FRAME_COUNT) reports
    decodable,           \* number of frames cap.read() yields before it fails
    opened,              \* cap.isOpened()
    pc,                  \* "start", "sampling", "skipped_empty",
                         \* "skipped_unknown", "done"
    data,
    frame_interval,
    dance_name,
    frame_count,
    sampled_frames,
    frame_buffer,
    smoothed_landmarks,
    reads,               \* calls of cap.read()
    detects,             \* calls of pose.process()
    submitted,           \* decode positions handed to pose.process()
    origin,              \* per record of data: how it was produced
    raw_history,         \* raw vectors of the successful detections, in order
    outcomes,            \* per selected frame: what it led to
    video_files,         \* main: the listed videos
    video_idx,           \* main: how many videos the for loop has taken
    all_data,            \* main
    results,             \* main: what process_video returned, per video
    main_pc,             \* "off" (process_video called directly), "loop",
                         \* "finished"
    fn_args,             \* arguments of a helper called directly
    fn_result            \* what the helper returned

inputs == <<video_path, sample_number, frames_per_sample, smoothing_window,
            total_frames, decodable, opened>>

locals == <<data, frame_interval, dance_name, frame_count, sampled_frames,
            frame_buffer, smoothed_landmarks>>

observed == <<reads, detects, submitted, origin, raw_history, outcomes>>

outer == <<video_files, video_idx, all_data, results, main_pc, fn_args,
           fn_result>>

vars == <<inputs, pc, locals, observed, outer>>

\* no call of process_video has left anything in its variables
FreshLocals ==
    /\ data = << >>
    /\ frame_interval = 0
    /\ dance_name = << >>
    /\ frame_count = 0
    /\ sampled_frames = 0
    /\ frame_buffer = << >>
    /\ smoothed_landmarks = None

\* nothing observed of the current call of process_video
FreshObserved ==
    /\ reads = 0
    /\ detects = 0
    /\ submitted = {}
    /\ origin = << >>
    /\ raw_history = << >>
    /\ outcomes = << >>

\* main is not running
NoBatch ==
    /\ video_files = << >>
    /\ video_idx = 0
    /\ all_data = << >>
    /\ results = << >>
    /\ main_pc = "off"

\* no helper is called directly
NoHelperCall ==
    /\ fn_args = << >>
    /\ fn_result = << >>

\* no video is being processed
NoVideo ==
    /\ video_path = << >>
    /\ sample_number = FirstSample
    /\ frames_per_sample = 1
    /\ smoothing_window = 5
    /\ total_frames = 0
    /\ decodable = 0
    /\ opened = FALSE

Init ==
    /\ video_path \in VideoPaths
    /\ sample_number = FirstSample
    /\ frames_per_sample \in 1..MaxTarget
    /\ smoothing_window \in Windows
    /\ total_frames \in 0..MaxReported
    /\ decodable \in 0..MaxDecodable
    /\ opened \in BOOLEAN
    /\ pc = "start"
    /\ FreshLocals
    /\ FreshObserved
    /\ NoBatch
    /\ NoHelperCall

(***************************************************************************)
(* The decisions of process_video.                                         *)
(***************************************************************************)
\* variant: the zero-frame test never fires
IsEmptyVideo_never(total) == FALSE

\* if total_frames == 0
IsEmptyVideo(total) == total = 0

\* variant: the interval is rounded up
FrameInterval_ceil(total, target) == Max(1, (total + target - 1) \div target)

\* frame_interval = max(1, total_frames // frames_per_sample)
FrameInterval(total, target) == Max(1, total \div target)

\* variant: the 'unknown' test never fires
IsUnknownDance_never(name) == FALSE

\* if dance_name == 'unknown'
IsUnknownDance(name) == name = Unknown

\* variant: the loop runs one sample too long
LoopCond_inclusive(is_open, sampled, target) == is_open /\ sampled <= target

\* variant: the loop does not look at the number of samples
LoopCond_unbounded(is_open, sampled, target) == is_open

\* while cap.isOpened() and sampled_frames < frames_per_sample
LoopCond(is_open, sampled, target) == is_open /\ sampled < target

\* variant: the last frame of each interval is selected
Selected_last(count, interval) == count % interval = interval - 1

\* variant: every frame is selected
Selected_always(count, interval) == TRUE

\* if frame_count % frame_interval == 0
Selected(count, interval) == count % interval = 0

\* if len(data) >= 2
CanInterpolate(d) == Len(d) >= 2

\* ret of cap.read(): the decoder yields its frames in order, then fails
ReadOk == frame_count < decodable

(***************************************************************************)
(* Entry of process_video, lines 120-151.                                  *)
(***************************************************************************)
SkipEmpty ==
    /\ pc = "start"
    /\ IsEmptyVideo(total_frames)
    /\ data' = << >>
    /\ pc' = "skipped_empty"
    /\ UNCHANGED <<outer, inputs, frame_interval, dance_name, frame_count,
                   sampled_frames, frame_buffer, smoothed_landmarks, observed>>

SkipUnknown ==
    /\ pc = "start"
    /\ ~IsEmptyVideo(total_frames)
    /\ LET name == extract_dance_name(Basename(video_path), VALID_DANCE_NAMES)
       IN /\ IsUnknownDance(name)
          /\ dance_name' = name
    /\ frame_interval' = FrameInterval(total_frames, frames_per_sample)
    /\ data' = << >>
    /\ pc' = "skipped_unknown"
    /\ UNCHANGED <<outer, inputs, frame_count, sampled_frames, frame_buffer,
                   smoothed_landmarks, observed>>

\* variant: the smoothing buffer outlives the call
StartSampling_stale ==
    /\ pc = "start"
    /\ ~IsEmptyVideo(total_frames)
    /\ LET name == extract_dance_name(Basename(video_path), VALID_DANCE_NAMES)
       IN /\ ~IsUnknownDance(name)
          /\ dance_name' = name
    /\ frame_interval' = FrameInterval(total_frames, frames_per_sample)
    /\ frame_count' = 0
    /\ sampled_frames' = 0
    /\ data' = << >>
    /\ pc' = "sampling"
    /\ UNCHANGED <<outer, inputs, frame_buffer, smoothed_landmarks, observed>>

StartSampling ==
    /\ pc = "start"
    /\ ~IsEmptyVideo(total_frames)
    /\ LET name == extract_dance_name(Basename(video_path), VALID_DANCE_NAMES)
       IN /\ ~IsUnknownDance(name)
          /\ dance_name' = name
    /\ frame_interval' = FrameInterval(total_frames, frames_per_sample)
    /\ frame_count' = 0
    /\ sampled_frames' = 0
    /\ frame_buffer' = << >>
    /\ data' = << >>
    /\ pc' = "sampling"
    /\ UNCHANGED <<outer, inputs, smoothed_landmarks, observed>>

(***************************************************************************)
(* One iteration of the sampling loop, lines 155-221.                      *)
(***************************************************************************)
Iterating ==
    /\ pc = "sampling"
    /\ LoopCond(opened, sampled_frames, frames_per_sample)

\* the loop condition is false: leave the loop and return data
LoopExit ==
    /\ pc = "sampling"
    /\ ~LoopCond(opened, sampled_frames, frames_per_sample)
    /\ pc' = "done"
    /\ UNCHANGED <<outer, inputs, locals, observed>>

\* variant: a failed read is tried again
ReadEnd_retry ==
    /\ Iterating
    /\ ~ReadOk
    /\ reads' = reads + 1
    /\ UNCHANGED <<outer, inputs, pc, locals, detects, submitted, origin, raw_history,
                   outcomes>>

\* cap.read() fails: break
ReadEnd ==
    /\ Iterating
    /\ ~ReadOk
    /\ reads' = reads + 1
    /\ pc' = "done"
    /\ UNCHANGED <<outer, inputs, locals, detects, submitted, origin, raw_history,
                   outcomes>>

\* a frame the interval rule does not select
SkipFrame ==
    /\ Iterating
    /\ ReadOk
    /\ ~Selected(frame_count, frame_interval)
    /\ reads' = reads + 1
    /\ frame_count' = frame_count + 1
    /\ UNCHANGED <<outer, inputs, pc, data, frame_interval, dance_name, sampled_frames,
                   frame_buffer, smoothed_landmarks, detects, submitted, origin,
                   raw_history, outcomes>>

\* a selected frame on which the detector finds landmarks, lines 169-202
Detected ==
    /\ Iterating
    /\ ReadOk
    /\ Selected(frame_count, frame_interval)
    /\ LET flattened_landmarks == PoseLandmarks(frame_count)
           buffer == DequeAppend(frame_buffer, flattened_landmarks,
                                 smoothing_window)
           smoothed == smooth_landmarks(buffer, smoothing_window)
       IN /\ frame_buffer' = buffer
          /\ smoothed_landmarks' = smoothed
          /\ raw_history' = Append(raw_history, flattened_landmarks)
          /\ IF smoothed # None
             THEN /\ data' = Append(data,
                         SmoothedDict(sample_number, sampled_frames + 1,
                                      dance_name, smoothed))
                  /\ origin' = Append(origin,
                         [kind |-> "detected", pos |-> frame_count,
                          detections |-> Len(raw_history) + 1])
             ELSE UNCHANGED <<data, origin>>
    /\ sampled_frames' = sampled_frames + 1
    /\ reads' = reads + 1
    /\ detects' = detects + 1
    /\ submitted' = submitted \cup {frame_count}
    /\ outcomes' = Append(outcomes, "detected")
    /\ frame_count' = frame_count + 1
    /\ UNCHANGED <<outer, inputs, pc, frame_interval, dance_name>>

\* variant: the last record is interpolated with itself
Interpolated_repeat ==
    /\ Iterating
    /\ ReadOk
    /\ Selected(frame_count, frame_interval)
    /\ CanInterpolate(data)
    /\ LET prev_frame == data[Len(data)]
           next_frame == data[Len(data)]
           interpolated_frames ==
               interpolate_missing_frames(prev_frame, next_frame, 1)
       IN /\ data' = data \o interpolated_frames
          /\ origin' = origin \o
                [i \in 1..Len(interpolated_frames) |->
                    [kind |-> "interpolated", pos |-> frame_count,
                     detections |-> Len(raw_history)]]
    /\ sampled_frames' = sampled_frames + 1
    /\ reads' = reads + 1
    /\ detects' = detects + 1
    /\ submitted' = submitted \cup {frame_count}
    /\ outcomes' = Append(outcomes, "interpolated")
    /\ frame_count' = frame_count + 1
    /\ UNCHANGED <<outer, inputs, pc, frame_interval, dance_name, frame_buffer,
                   smoothed_landmarks, raw_history>>

\* variant: an interpolated record is not counted as sampled
Interpolated_uncounted ==
    /\ Iterating
    /\ ReadOk
    /\ Selected(frame_count, frame_interval)
    /\ CanInterpolate(data)
    /\ LET prev_frame == data[Len(data) - 1]
           next_frame == data[Len(data)]
           interpolated_frames ==
               interpolate_missing_frames(prev_frame, next_frame, 1)
       IN /\ data' = data \o interpolated_frames
          /\ origin' = origin \o
                [i \in 1..Len(interpolated_frames) |->
                    [kind |-> "interpolated", pos |-> frame_count,
                     detections |-> Len(raw_history)]]
    /\ reads' = reads + 1
    /\ detects' = detects + 1
    /\ submitted' = submitted \cup {frame_count}
    /\ outcomes' = Append(outcomes, "interpolated")
    /\ frame_count' = frame_count + 1
    /\ UNCHANGED <<outer, inputs, pc, frame_interval, dance_name, sampled_frames,
                   frame_buffer, smoothed_landmarks, raw_history>>

\* a selected frame without landmarks, at least two records: lines 207-215
Interpolated ==
    /\ Iterating
    /\ ReadOk
    /\ Selected(frame_count, frame_interval)
    /\ CanInterpolate(data)
    /\ LET prev_frame == data[Len(data) - 1]
           next_frame == data[Len(data)]
           interpolated_frames ==
               interpolate_missing_frames(prev_frame, next_frame, 1)
       IN /\ data' = data \o interpolated_frames
          /\ origin' = origin \o
                [i \in 1..Len(interpolated_frames) |->
                    [kind |-> "interpolated", pos |-> frame_count,
                     detections |-> Len(raw_history)]]
    /\ sampled_frames' = sampled_frames + 1
    /\ reads' = reads + 1
    /\ detects' = detects + 1
    /\ submitted' = submitted \cup {frame_count}
    /\ outcomes' = Append(outcomes, "interpolated")
    /\ frame_count' = frame_count + 1
    /\ UNCHANGED <<outer, inputs, pc, frame_interval, dance_name, frame_buffer,
                   smoothed_landmarks, raw_history>>

\* variant: a dropped frame counts as sampled
Dropped_counted ==
    /\ Iterating
    /\ ReadOk
    /\ Selected(frame_count, frame_interval)
    /\ ~CanInterpolate(data)
    /\ sampled_frames' = sampled_frames + 1
    /\ reads' = reads + 1
    /\ detects' = detects + 1
    /\ submitted' = submitted \cup {frame_count}
    /\ outcomes' = Append(outcomes, "dropped")
    /\ frame_count' = frame_count + 1
    /\ UNCHANGED <<outer, inputs, pc, data, frame_interval, dance_name,
                   frame_buffer, smoothed_landmarks, origin, raw_history>>

\* a selected frame without landmarks, fewer than two records: lines 218-219
Dropped ==
    /\ Iterating
    /\ ReadOk
    /\ Selected(frame_count, frame_interval)
    /\ ~CanInterpolate(data)
    /\ reads' = reads + 1
    /\ detects' = detects + 1
    /\ submitted' = submitted \cup {frame_count}
    /\ outcomes' = Append(outcomes, "dropped")
    /\ frame_count' = frame_count + 1
    /\ UNCHANGED <<outer, inputs, pc, data, frame_interval, dance_name, sampled_frames,
                   frame_buffer, smoothed_landmarks, origin, raw_history>>

Next ==
    \/ SkipEmpty
    \/ SkipUnknown
    \/ StartSampling
    \/ LoopExit
    \/ ReadEnd
    \/ SkipFrame
    \/ Detected
    \/ Interpolated
    \/ Dropped

Spec == Init /\ [][Next]_vars

Returned == pc \in {"skipped_empty", "skipped_unknown", "done"}

TypeOK ==
    /\ pc \in {"start", "sampling", "skipped_empty", "skipped_unknown", "done"}
    /\ frame_count \in 0..MaxDecodable
    /\ sampled_frames \in 0..MaxTarget
    /\ Len(frame_buffer) <= smoothing_window
    /\ Len(origin) = Len(data)
    /\ \A i \in 1..Len(outcomes) :
          outcomes[i] \in {"detected", "interpolated", "dropped"}

(***************************************************************************)
(* interpolate_missing_frames called on its own, lines 55-86.              *)
(***************************************************************************)
MaxMissing == 3       \* largest num_missing

\* field values of the frames handed to the function: -1/2, 0, 3
InterpValues == {<<-1, 2>>, <<0, 1>>, <<3, 1>>}

\* all vectors of n values
RECURSIVE VectorsOf(_)
VectorsOf(n) ==
    IF n = 0 THEN {<< >>}
    ELSE {Append(v, x) : v \in VectorsOf(n - 1), x \in InterpValues}

\* the frames handed to the function: two labellings, every vector
InterpFrames ==
    {[sample_number |-> m[1], frame_number |-> m[2], dance_name |-> m[3],
      values |-> v] :
        m \in {<<1, 2, VALID_DANCE_NAMES[2]>>, <<2, 5, VALID_DANCE_NAMES[3]>>},
        v \in VectorsOf(NumFields)}

InitInterpolate ==
    /\ fn_args \in [prev_frame : InterpFrames, next_frame : InterpFrames,
                    num_missing : 0..MaxMissing]
    /\ fn_result = << >>
    /\ pc = "call"
    /\ NoVideo
    /\ FreshLocals
    /\ FreshObserved
    /\ NoBatch

CallInterpolate ==
    /\ pc = "call"
    /\ fn_result' = interpolate_missing_frames(fn_args.prev_frame,
                        fn_args.next_frame, fn_args.num_missing)
    /\ pc' = "returned"
    /\ UNCHANGED <<inputs, locals, observed, video_files, video_idx, all_data,
                   results, main_pc, fn_args>>

SpecInterpolate == InitInterpolate /\ [][CallInterpolate]_vars

(***************************************************************************)
(* extract_dance_name called on its own, lines 88-105.                     *)
(***************************************************************************)
\* pieces of file names: "", floss, LAUGH, Griddy, clip, boogie_, up, flo, s
NamePieces ==
    { << >>,
      <<"f", "l", "o", "s", "s">>,
      <<"L", "A", "U", "G", "H">>,
      <<"G", "r", "i", "d", "d", "y">>,
      <<"c", "l", "i", "p">>,
      <<"b", "o", "o", "g", "i", "e", "_">>,
      <<"u", "p">>,
      <<"f", "l", "o">>,
      <<"s">> }

\* the file names: up to three pieces in a row
Filenames == {a \o b \o c : a \in NamePieces, b \in NamePieces, c \in NamePieces}

InitExtract ==
    /\ fn_args \in Filenames
    /\ fn_result = << >>
    /\ pc = "call"
    /\ NoVideo
    /\ FreshLocals
    /\ FreshObserved
    /\ NoBatch

CallExtract ==
    /\ pc = "call"
    /\ fn_result' = extract_dance_name(fn_args, VALID_DANCE_NAMES)
    /\ pc' = "returned"
    /\ UNCHANGED <<inputs, locals, observed, video_files, video_idx, all_data,
                   results, main_pc, fn_args>>

SpecExtract == InitExtract /\ [][CallExtract]_vars

(***************************************************************************)
(* main: the loop over the listed videos, lines 255-278.                   *)
(***************************************************************************)
MaxVideos == 2        \* largest number of listed videos
BatchTarget == 3      \* frames_per_sample of main (96 in the program)

\* smoothing_window = 5 of main
MainWindow == 5

\* video_directory of main ('sample_data' in the program)
VideoDirectory == <<"s">>

\* os.path.join(directory, file)
PathJoin(directory, file) == directory \o <<"/">> \o file

\* the videos a listing can hold: file name, reported frame count, frames
\* the decoder yields, whether the capture opens
\*   Griddy2 (2, 3)   laugh_FLOSS (8, 4)   clip1 (2, 2)   Griddy2 (0, 1)
BatchVideos ==
    { [file |-> <<"G", "r", "i", "d", "d", "y", "2">>,
       total_frames |-> 2, decodable |-> 3, opened |-> TRUE],
      [file |-> <<"l", "a", "u", "g", "h", "_", "F", "L", "O", "S", "S">>,
       total_frames |-> 8, decodable |-> 4, opened |-> TRUE],
      [file |-> <<"c", "l", "i", "p", "1">>,
       total_frames |-> 2, decodable |-> 2, opened |-> TRUE],
      [file |-> <<"G", "r", "i", "d", "d", "y", "2">>,
       total_frames |-> 0, decodable |-> 1, opened |-> TRUE] }

\* all listings of n videos
RECURSIVE ListingsOf(_)
ListingsOf(n) ==
    IF n = 0 THEN {<< >>}
    ELSE {Append(l, v) : l \in ListingsOf(n - 1), v \in BatchVideos}

InitBatch ==
    /\ video_files \in UNION {ListingsOf(n) : n \in 0..MaxVideos}
    /\ video_idx = 0
    /\ all_data = << >>
    /\ results = << >>
    /\ main_pc = "loop"
    /\ sample_number = FirstSample
    /\ frames_per_sample = BatchTarget
    /\ smoothing_window = MainWindow
    /\ video_path = << >>
    /\ total_frames = 0
    /\ decodable = 0
    /\ opened = FALSE
    /\ pc = "idle"
    /\ FreshLocals
    /\ FreshObserved
    /\ NoHelperCall

\* for video_file in video_files: call process_video, lines 259-269; the
\* variables of process_video keep what the previous call left in them
\* until the new call assigns them
MainCall ==
    /\ main_pc = "loop"
    /\ pc = "idle"
    /\ video_idx < Len(video_files)
    /\ video_idx' = video_idx + 1
    /\ LET video == video_files[video_idx + 1]
       IN /\ video_path' = PathJoin(VideoDirectory, video.file)
          /\ total_frames' = video.total_frames
          /\ decodable' = video.decodable
          /\ opened' = video.opened
    /\ pc' = "start"
    /\ reads' = 0
    /\ detects' = 0
    /\ submitted' = {}
    /\ origin' = << >>
    /\ raw_history' = << >>
    /\ outcomes' = << >>
    /\ UNCHANGED <<sample_number, frames_per_sample, smoothing_window, locals,
                   video_files, all_data, results, main_pc, fn_args, fn_result>>

\* variant: a video without records does not use up a sample number
MainCollect_numbered_if_data ==
    /\ main_pc = "loop"
    /\ Returned
    /\ LET sample_data == data
       IN /\ all_data' = IF sample_data # << >> THEN all_data \o sample_data
                         ELSE all_data
          /\ results' = Append(results, sample_data)
          /\ sample_number' = IF sample_data # << >> THEN sample_number + 1
                              ELSE sample_number
    /\ pc' = "idle"
    /\ UNCHANGED <<video_path, frames_per_sample, smoothing_window,
                   total_frames, decodable, opened, locals, observed,
                   video_files, video_idx, main_pc, fn_args, fn_result>>

\* process_video has returned: lines 271-278
MainCollect ==
    /\ main_pc = "loop"
    /\ Returned
    /\ LET sample_data == data
       IN /\ all_data' = IF sample_data # << >> THEN all_data \o sample_data
                         ELSE all_data
          /\ results' = Append(results, sample_data)
    /\ sample_number' = sample_number + 1
    /\ pc' = "idle"
    /\ UNCHANGED <<video_path, frames_per_sample, smoothing_window,
                   total_frames, decodable, opened, locals, observed,
                   video_files, video_idx, main_pc, fn_args, fn_result>>

\* the listing is exhausted: lines 280-291
MainFinish ==
    /\ main_pc = "loop"
    /\ pc = "idle"
    /\ video_idx >= Len(video_files)
    /\ main_pc' = "finished"
    /\ UNCHANGED <<inputs, pc, locals, observed, video_files, video_idx,
                   all_data, results, fn_args, fn_result>>

NextBatch ==
    \/ MainCall
    \/ MainCollect
    \/ MainFinish
    \/ SkipEmpty
    \/ SkipUnknown
    \/ StartSampling
    \/ LoopExit
    \/ ReadEnd
    \/ SkipFrame
    \/ Detected
    \/ Interpolated
    \/ Dropped

SpecBatch == InitBatch /\ [][NextBatch]_vars

(***************************************************************************)
(* Properties.                                                             *)
(***************************************************************************)
\* the interval rule written out: max(1, total_frames // frames_per_sample)
RuleInterval ==
    IF total_frames \div frames_per_sample >= 1
    THEN total_frames \div frames_per_sample
    ELSE 1

\* the filename (without its directory) holds no name of the vocabulary
NoVocabularyName ==
    \A i \in 1..Len(VALID_DANCE_NAMES) :
        ~Contains(Lower(Basename(video_path)), VALID_DANCE_NAMES[i])

Vocabulary == {VALID_DANCE_NAMES[i] : i \in 1..Len(VALID_DANCE_NAMES)}

\* C1: the frame_number values of the records of data, read in list order,
\* are exactly 1, 2, ..., len: no repeat and no gap, interpolated records
\* and the detections after them included.
C1_FrameNumbersContiguous ==
    \A i \in 1..Len(data) : data[i].frame_number = i

\* C2: for a reported frame count of at least 1, the number of accumulated
\* records never exceeds frames_per_sample, in the loop and at return.
C2_LengthAtMostTarget ==
    total_frames >= 1 => (0 <= Len(data) /\ Len(data) <= frames_per_sample)

C2_Witness ==
    /\ pc = "done"
    /\ total_frames >= 1
    /\ Len(data) = frames_per_sample
    /\ frame_count < decodable
    /\ \E i \in 1..Len(outcomes) : outcomes[i] = "interpolated"

\* C3: with a reported frame count of 0 process_video returns the empty
\* sequence and calls neither cap.read nor pose.process, whatever the
\* filename is.
C3_ZeroFramesNoWork ==
    total_frames = 0 =>
        /\ pc \in {"start", "skipped_empty"}
        /\ data = << >>
        /\ reads = 0
        /\ detects = 0

C3_Witness ==
    /\ pc = "skipped_empty"
    /\ total_frames = 0
    /\ opened
    /\ decodable > 0
    /\ ~NoVocabularyName

\* C4: a filename without a name of the vocabulary gives the empty sequence
\* without any decode or detector call; and the dance_name of every record
\* is a name of the vocabulary, never 'unknown', and the same in all records.
C4_UncategorizedNoRecords ==
    /\ NoVocabularyName =>
          /\ pc \in {"start", "skipped_empty", "skipped_unknown"}
          /\ data = << >>
          /\ reads = 0
          /\ detects = 0
    /\ \A i \in 1..Len(data) :
          /\ data[i].dance_name \in Vocabulary
          /\ data[i].dance_name # Unknown
          /\ data[i].dance_name = data[1].dance_name

C4_Witness ==
    /\ pc = "skipped_unknown"
    /\ NoVocabularyName
    /\ Contains(Lower(video_path), VALID_DANCE_NAMES[3])
    /\ total_frames >= 1
    /\ opened
    /\ decodable > 0

\* the step handles a selected frame on which the detector found nothing
NoDetectionStep == detects' = detects + 1 /\ raw_history' = raw_history

\* the step handles a selected frame on which the detector found landmarks
DetectionStep == detects' = detects + 1 /\ raw_history' # raw_history

LastOutcome == IF outcomes = << >> THEN "none" ELSE outcomes[Len(outcomes)]

AllDetected == \A i \in 1..Len(outcomes) : outcomes[i] = "detected"

\* sum of field j over rows[1..k], for the reference means below
RECURSIVE SumUpTo(_, _, _)
SumUpTo(rows, j, k) ==
    IF k = 0 THEN <<0, 1>> ELSE RAdd(SumUpTo(rows, j, k - 1), rows[k][j])

\* vector v is the arithmetic mean of the rows: n * v = sum of the rows
IsMeanOf(v, rows) ==
    /\ Len(v) = NumFields
    /\ \A j \in 1..NumFields :
          RMul(Rat(Len(rows), 1), v[j]) = SumUpTo(rows, j, Len(rows))

\* C5: a failed detection while data holds fewer than 2 records appends
\* nothing, leaves sampled_frames and frame_buffer as they are and consumes
\* no frame number: the next successful detection gets the number that
\* directly follows the last record of data.
C5_EarlyFailureDropped ==
    [][ /\ (NoDetectionStep /\ Len(data) < 2) =>
              /\ data' = data
              /\ sampled_frames' = sampled_frames
              /\ frame_buffer' = frame_buffer
        /\ (DetectionStep /\ LastOutcome = "dropped" /\ data' # data) =>
              /\ Len(data') = Len(data) + 1
              /\ data'[Len(data')].frame_number =
                    IF data = << >> THEN 1
                    ELSE data[Len(data)].frame_number + 1
      ]_vars

C5_Witness ==
    /\ outcomes = <<"detected", "dropped", "detected">>
    /\ Len(data) = 2
    /\ data[2].frame_number = 2

\* C6: the decode positions handed to the detector are exactly the positions
\* p of the frames decoded so far with p mod max(1, total_frames div
\* frames_per_sample) = 0, each handed over once.
C6_SubmittedIffSelected ==
    /\ submitted = {p \in 0..(frame_count - 1) : p % RuleInterval = 0}
    /\ detects = Cardinality(submitted)

C6_Witness ==
    /\ RuleInterval = 2
    /\ frame_count = 4
    /\ submitted = {0, 2}

\* C7: once sampled_frames has reached frames_per_sample no frame is decoded
\* and the detector is not called; and a read that reports the end of the
\* stream ends the processing with data as accumulated so far.
C7_StopsAtTargetOrEnd ==
    [][ /\ sampled_frames >= frames_per_sample =>
              /\ reads' = reads
              /\ detects' = detects
              /\ frame_count' = frame_count
        /\ (reads' = reads + 1 /\ frame_count' = frame_count) =>
              /\ pc' = "done"
              /\ data' = data
      ]_vars

C7_Witness ==
    /\ pc = "done"
    /\ sampled_frames = frames_per_sample
    /\ frame_count < decodable
    /\ reads = frame_count

\* C8 as stated: a decoder that yields exactly total_frames >= 1 frames, a
\* recognized category and a detector that succeeds on every selected frame
\* give exactly min(total_frames, frames_per_sample) records, the k-th from
\* decode position (k - 1) * max(1, total_frames div frames_per_sample).
C8_Original ==
    ( /\ pc = "done"
      /\ opened
      /\ total_frames >= 1
      /\ decodable = total_frames
      /\ AllDetected ) =>
        /\ Len(data) = Min(total_frames, frames_per_sample)
        /\ \A k \in 1..Len(data) : origin[k].pos = (k - 1) * RuleInterval

\* C8, amended: the same, for a smoothing window of at least 1.
C8_ExactCountWithWindow ==
    ( /\ pc = "done"
      /\ opened
      /\ total_frames >= 1
      /\ decodable = total_frames
      /\ AllDetected
      /\ smoothing_window >= 1 ) =>
        /\ Len(data) = Min(total_frames, frames_per_sample)
        /\ \A k \in 1..Len(data) : origin[k].pos = (k - 1) * RuleInterval

C8_Witness ==
    /\ pc = "done"
    /\ opened
    /\ total_frames = 4
    /\ decodable = 4
    /\ frames_per_sample = 2
    /\ smoothing_window >= 1
    /\ AllDetected
    /\ Len(data) = 2
    /\ origin[2].pos = 2

\* C9: every record appended after a successful detection holds, in each
\* field, the mean of the raw vectors of the most recent min(s, w)
\* successful detections, s counting the detections up to that record; with
\* w = 5 and no failure, record i is the mean of raw vectors
\* max(1, i - 4) .. i.
C9_DetectedRecordIsWindowMean ==
    /\ \A i \in 1..Len(data) :
          origin[i].kind = "detected" =>
              LET s == origin[i].detections
                  n == Min(s, smoothing_window)
              IN IsMeanOf(data[i].values, SubSeq(raw_history, s - n + 1, s))
    /\ (smoothing_window = 5 /\ AllDetected) =>
          \A i \in 1..Len(data) :
              IsMeanOf(data[i].values,
                       SubSeq(raw_history, IF i > 5 THEN i - 4 ELSE 1, i))

C9_Witness ==
    /\ smoothing_window = 5
    /\ AllDetected
    /\ Len(data) = 6
    /\ Len(raw_history) = 6

\* C10: on a buffer of n vectors, 1 <= n <= window, smooth_landmarks returns
\* the mean of exactly those n vectors; it returns None exactly when the
\* buffer is empty.  (smoothed_landmarks is what the call on frame_buffer
\* returned.)
C10_SmoothIsMeanOfBuffer ==
    raw_history # << >> =>
        /\ smoothed_landmarks = None <=> frame_buffer = << >>
        /\ (1 <= Len(frame_buffer) /\ Len(frame_buffer) <= smoothing_window) =>
              IsMeanOf(smoothed_landmarks, frame_buffer)

C10_Witness ==
    /\ smoothing_window = 3
    /\ Len(frame_buffer) = 2
    /\ smoothed_landmarks # None
    /\ smoothed_landmarks # frame_buffer[2]

\* C14: a failed detection while data holds at least 2 records appends
\* exactly one record and adds one to sampled_frames; each field of the new
\* record is the midpoint of the same field of data[-2] and data[-1] as they
\* were before the append (detected or interpolated alike), and
\* sample_number and dance_name are those of data[-2].
C14_FailureInterpolatesLastTwo ==
    [][ (NoDetectionStep /\ Len(data) >= 2) =>
            /\ Len(data') = Len(data) + 1
            /\ SubSeq(data', 1, Len(data)) = data
            /\ sampled_frames' = sampled_frames + 1
            /\ LET new == data'[Len(data')]
                   older == data[Len(data) - 1]
                   newer == data[Len(data)]
               IN /\ \A j \in 1..NumFields :
                         RMul(Rat(2, 1), new.values[j]) =
                             RAdd(older.values[j], newer.values[j])
                  /\ new.sample_number = older.sample_number
                  /\ new.dance_name = older.dance_name
      ]_vars

C14_Witness ==
    /\ Len(outcomes) >= 4
    /\ outcomes[Len(outcomes)] = "interpolated"
    /\ outcomes[Len(outcomes) - 1] = "interpolated"
    /\ Len(data) >= 4
    /\ origin[Len(data) - 1].kind = "interpolated"
    /\ data[Len(data)].values # data[Len(data) - 1].values

\* C15: the smoothing buffer holds exactly the raw vectors of the most
\* recent min(s, w) successful detections, oldest first: never more than w,
\* only vectors the detector reported, and unchanged by a failed detection.
C15_BufferHoldsRecentRaw ==
    LET s == Len(raw_history)
        n == Min(s, smoothing_window)
    IN /\ Len(frame_buffer) <= smoothing_window
       /\ frame_buffer = SubSeq(raw_history, s - n + 1, s)
       /\ \A i \in 1..Len(frame_buffer) :
             \E p \in submitted : frame_buffer[i] = PoseLandmarks(p)

C15_Witness ==
    /\ smoothing_window = 3
    /\ Len(raw_history) = 4
    /\ Len(frame_buffer) = 3
    /\ \E i \in 1..Len(outcomes) : outcomes[i] = "dropped"
    /\ \E i \in 1..Len(outcomes) : outcomes[i] = "interpolated"
    /\ outcomes[Len(outcomes)] = "interpolated"

\* C16: with a smoothing window of at least 1, at every start of a loop
\* iteration and at return sampled_frames is the number of records of data,
\* which is the number of selected frames that were detected or recovered by
\* interpolation: dropped and unselected frames add nothing.
C16_CountEqualsRecords ==
    (smoothing_window >= 1 /\ pc \in {"sampling", "done"}) =>
        /\ sampled_frames = Len(data)
        /\ Len(data) =
              Cardinality({i \in 1..Len(outcomes) : outcomes[i] # "dropped"})

C16_Witness ==
    /\ pc = "done"
    /\ smoothing_window >= 1
    /\ sampled_frames = 4
    /\ \E i \in 1..Len(outcomes) : outcomes[i] = "dropped"
    /\ \E i \in 1..Len(outcomes) : outcomes[i] = "interpolated"
    /\ \E i \in 1..Len(outcomes) : outcomes[i] = "detected"

\* what is left to do: 0 once returned, else the frames still to decode
\* plus the steps around the loop
Rank ==
    IF Returned THEN 0
    ELSE IF pc = "sampling" THEN 1 + (decodable - frame_count)
    ELSE decodable + 2

\* C17: process_video returns (skip or done) for every video and every
\* sequence of detector outcomes: every step lowers the natural number Rank
\* (each loop iteration consumes a decoded frame or leaves the loop), and
\* cap.read is called at most once more than the decoder has frames.
C17_Terminates ==
    [][ /\ Rank \in Nat
        /\ Rank' \in Nat
        /\ Rank' < Rank
        /\ reads' <= decodable + 1
        /\ (pc = "sampling" /\ pc' = "sampling") =>
              (reads' = reads + 1 /\ frame_count' = frame_count + 1)
      ]_vars

C17_Witness ==
    /\ pc = "done"
    /\ decodable >= 3
    /\ reads = decodable + 1
    /\ Len(outcomes) = decodable
    /\ \A i \in 1..Len(outcomes) : outcomes[i] = "dropped"

\* C18: decoding a frame the interval rule does not select changes only the
\* decode position (and the count of reads): data, sampled_frames and
\* frame_buffer stay and the detector is not called.
C18_UnselectedFrameNoEffect ==
    [][ (pc = "sampling" /\ frame_count' = frame_count + 1
            /\ frame_count % RuleInterval # 0) =>
            /\ data' = data
            /\ sampled_frames' = sampled_frames
            /\ frame_buffer' = frame_buffer
            /\ detects' = detects
            /\ UNCHANGED <<inputs, pc, frame_interval, dance_name,
                           smoothed_landmarks, submitted, origin, raw_history,
                           outcomes>>
      ]_vars

C18_Witness ==
    /\ pc = "sampling"
    /\ RuleInterval = 2
    /\ frame_count = 2
    /\ reads = 2
    /\ detects = 1
    /\ Len(data) = 1

\* C11: interpolate_missing_frames(prev, next, n) returns exactly n records;
\* in record i every field is (1 - r) * prev + r * next with r = i / (n + 1),
\* that is (n + 1) * field = (n + 1 - i) * prev + i * next; sample_number and
\* dance_name are those of prev; for n = 1 every field is the midpoint.
C11_InterpolationIsLinear ==
    pc = "returned" =>
        LET prev == fn_args.prev_frame
            next == fn_args.next_frame
            n == fn_args.num_missing
        IN /\ Len(fn_result) = n
           /\ \A i \in 1..n :
                 /\ fn_result[i].sample_number = prev.sample_number
                 /\ fn_result[i].dance_name = prev.dance_name
                 /\ Len(fn_result[i].values) = NumFields
                 /\ \A j \in 1..NumFields :
                       RMul(Rat(n + 1, 1), fn_result[i].values[j]) =
                           RAdd(RMul(Rat(n + 1 - i, 1), prev.values[j]),
                                RMul(Rat(i, 1), next.values[j]))
           /\ n = 1 =>
                 \A j \in 1..NumFields :
                     RAdd(fn_result[1].values[j], fn_result[1].values[j]) =
                         RAdd(prev.values[j], next.values[j])

C11_Witness ==
    /\ pc = "returned"
    /\ fn_args.num_missing = 3
    /\ fn_args.prev_frame.values[1] = <<0, 1>>
    /\ fn_args.next_frame.values[1] = <<3, 1>>
    /\ fn_args.prev_frame.dance_name # fn_args.next_frame.dance_name
    /\ fn_result[1].values[1] = <<3, 4>>
    /\ fn_result[3].values[1] = <<9, 4>>

\* an entry of the vocabulary occurs in the lower-cased file name
Occurs(i, filename) == Contains(Lower(filename), VALID_DANCE_NAMES[i])

\* C19: extract_dance_name returns the lower-cased form of the first entry
\* of the vocabulary, in list order, that occurs in the lower-cased file
\* name, and 'unknown' exactly when no entry occurs.
C19_FirstMatchWins ==
    pc = "returned" =>
        /\ fn_result = Unknown <=>
              \A i \in 1..Len(VALID_DANCE_NAMES) : ~Occurs(i, fn_args)
        /\ \A i \in 1..Len(VALID_DANCE_NAMES) :
              (Occurs(i, fn_args) /\ \A k \in 1..(i - 1) : ~Occurs(k, fn_args))
                  => fn_result = Lower(VALID_DANCE_NAMES[i])

\* LAUGH then floss: both occur, floss is earlier in the vocabulary
C19_Witness ==
    /\ pc = "returned"
    /\ fn_args = <<"L", "A", "U", "G", "H", "f", "l", "o", "s", "s">>
    /\ fn_result = VALID_DANCE_NAMES[3]

\* the per-video sequences, one after the other
RECURSIVE Concat(_)
Concat(seqs) ==
    IF seqs = << >> THEN << >> ELSE seqs[1] \o Concat(Tail(seqs))

\* C12: main calls process_video once per listed video, in listing order,
\* whatever the previous call returned; sample_number grows by one per
\* video, skipped ones included, so records of different videos never share
\* a sample_number; all_data is the per-video sequences in order.
C12_BatchInOrder ==
    main_pc \in {"loop", "finished"} =>
        /\ video_idx <= Len(video_files)
        /\ video_idx = Len(results) + (IF pc = "idle" THEN 0 ELSE 1)
        /\ pc # "idle" =>
              LET video == video_files[video_idx]
              IN /\ video_path = PathJoin(VideoDirectory, video.file)
                 /\ total_frames = video.total_frames
                 /\ decodable = video.decodable
        /\ sample_number = FirstSample + Len(results)
        /\ all_data = Concat(results)
        /\ \A i \in 1..Len(results) : \A k \in 1..Len(results[i]) :
              results[i][k].sample_number = FirstSample + i - 1
        /\ \A i, j \in 1..Len(results) :
              \A k \in 1..Len(results[i]) : \A l \in 1..Len(results[j]) :
                  i # j => results[i][k].sample_number #
                               results[j][l].sample_number
        /\ main_pc = "finished" => Len(results) = Len(video_files)

C12_Witness ==
    /\ main_pc = "finished"
    /\ Len(video_files) = 2
    /\ video_files[1].total_frames = 0
    /\ results[1] = << >>
    /\ Len(results[2]) >= 2
    /\ all_data = results[2]
    /\ all_data[1].sample_number = 2

\* what one selected frame does to (data, buffer, sampled), from the
\* arguments of the call and the detector's outcome alone
ReplayStep(st, outcome, pos, sample, dance, window) ==
    IF outcome = "detected"
    THEN LET buffer == DequeAppend(st.buffer, PoseLandmarks(pos), window)
             smoothed == smooth_landmarks(buffer, window)
         IN [data    |-> IF smoothed # None
                         THEN Append(st.data,
                                  SmoothedDict(sample, st.sampled + 1, dance,
                                               smoothed))
                         ELSE st.data,
             buffer  |-> buffer,
             sampled |-> st.sampled + 1]
    ELSE IF outcome = "interpolated"
    THEN [data    |-> st.data \o
                          interpolate_missing_frames(
                              st.data[Len(st.data) - 1], st.data[Len(st.data)], 1),
          buffer  |-> st.buffer,
          sampled |-> st.sampled + 1]
    ELSE st

\* process_video on this video alone, after its first k selected frames
RECURSIVE Replay(_)
Replay(k) ==
    IF k = 0 THEN [data |-> << >>, buffer |-> << >>, sampled |-> 0]
    ELSE ReplayStep(Replay(k - 1), outcomes[k], (k - 1) * RuleInterval,
                    sample_number,
                    extract_dance_name(Basename(video_path), VALID_DANCE_NAMES),
                    smoothing_window)

\* C13: what process_video holds and returns for a video is a function of
\* that video's own inputs (frame count, file name, detector outcomes,
\* sample number, parameters), whatever videos were processed before it:
\* data, frame_buffer and sampled_frames start empty or zero and equal the
\* replay of the video on its own.
C13_OwnInputsOnly ==
    main_pc = "loop" =>
        /\ (pc = "sampling" /\ reads = 0) =>
              /\ data = << >>
              /\ frame_buffer = << >>
              /\ sampled_frames = 0
              /\ frame_count = 0
        /\ pc \in {"sampling", "done"} =>
              LET own == Replay(Len(outcomes))
              IN /\ data = own.data
                 /\ frame_buffer = own.buffer
                 /\ sampled_frames = own.sampled
        /\ pc \in {"skipped_empty", "skipped_unknown"} => data = << >>

C13_Witness ==
    /\ main_pc = "loop"
    /\ video_idx = 2
    /\ pc = "done"
    /\ video_files[1] # video_files[2]
    /\ Len(results[1]) >= 2
    /\ Len(data) >= 2
    /\ data[1].sample_number = 2
    /\ data[1].dance_name # results[1][1].dance_name
====
